---- MODULE Spec2Model ----
(***************************************************************************)
(* A model of the APS events generator: the layout engine                  *)
(* (svg_generator.generate_svg), the date normaliser and digest builder    *)
(* (generate.generate_content_txt), the batch validation                   *)
(* (validators.validate_api_response) and the batch driver (generate.main).*)
(*                                                                         *)
(* A Python str is a tuple of one-character strings, so that "in", split,  *)
(* strip, join and strptime are computed character by character.  A value  *)
(* of a dictionary is [tag, s]: tag "missing" (the key is not in the       *)
(* dict), "None" (JSON null) or "str" (s is the text).                    *)
(*                                                                         *)
(* Lengths on the canvas are kept in tenths of a unit, so that             *)
(* font_size * 1.2 is exact.                                               *)
(***************************************************************************)
EXTENDS Integers, Sequences, FiniteSets, TLC

VARIABLES
    pc,            \* position of the running function
    event_data,    \* generate_svg's argument (the event being rendered)
    logo_exists,   \* Path(logo_path).exists()
    svg_element,   \* generate_svg's return value
    events_data,   \* the batch: generate_content_txt's argument, main's list
    content_txt,   \* generate_content_txt's outcome
    args,          \* the command line: start_date, end_date (None when omitted)
    dry_run,       \* args.dry_run
    response,      \* what the API call gives main
    index,         \* main's loop index (0-based, as enumerate)
    files,         \* the output directory: file name -> content
    dir_created,   \* output_dir.mkdir happened
    exit_code,     \* sys.exit status, -1 while running, 0 for a normal return
    failed,        \* the events (1-based) whose rendering or writing raised
    log            \* the log records written so far

vars == <<pc, event_data, logo_exists, svg_element, events_data, content_txt,
          args, dry_run, response, index, files, dir_created, exit_code, failed, log>>

-----------------------------------------------------------------------------
(* Bounds of the model *)

\* longest batch of events main and generate_content_txt are run on
MaxEvents == 2

-----------------------------------------------------------------------------
(* Python values *)

Missing == [tag |-> "missing", s |-> <<>>]
None == [tag |-> "None", s |-> <<>>]
Str(s) == [tag |-> "str", s |-> s]

\* d.get(key): None when the key is missing
dict_get(v) == IF v.tag = "missing" THEN None ELSE v

\* d.get(key, default): the default only when the key is missing
dict_get_default(v, default) == IF v.tag = "missing" THEN default ELSE v

\* a mutant of truthy: every str, also the empty one, counts as present
truthy_any_str(v) == v.tag = "str"

\* bool(v) of a value that is a str or None
truthy(v) == v.tag = "str" /\ v.s # <<>>

\* str.strip()'s whitespace, and the regular expression's \s
Whitespace == {" ", "\t", "\n"}

\* str.find(pat) + 1: the first position where pat occurs in s, 0 when none
find(s, pat) ==
    LET hits == {i \in 1..(Len(s) - Len(pat) + 1) : SubSeq(s, i, i + Len(pat) - 1) = pat}
    IN  IF hits = {} THEN 0 ELSE CHOOSE i \in hits : \A j \in hits : i <= j

\* pat in s
contains(s, pat) == find(s, pat) # 0

\* s.split(pat)[0], for a non-empty pat
split_first(s, pat) ==
    IF contains(s, pat) THEN SubSeq(s, 1, find(s, pat) - 1) ELSE s

RECURSIVE lstrip(_)
lstrip(s) == IF s # <<>> /\ Head(s) \in Whitespace THEN lstrip(Tail(s)) ELSE s

RECURSIVE rstrip(_)
rstrip(s) ==
    IF s # <<>> /\ s[Len(s)] \in Whitespace THEN rstrip(SubSeq(s, 1, Len(s) - 1)) ELSE s

\* s.strip()
strip(s) == rstrip(lstrip(s))

\* sep.join(parts), for a sequence of str
RECURSIVE join(_, _)
join(sep, parts) ==
    IF parts = <<>> THEN <<>>
    ELSE IF Len(parts) = 1 THEN parts[1]
    ELSE parts[1] \o sep \o join(sep, Tail(parts))

-----------------------------------------------------------------------------
(* svg_generator.py *)

TEXT_COLOUR == <<"#","F","F","F","F","F","F">>

\* the patterns, in the order the loop tries them
time_patterns == << <<"T">>, <<" ","a","t"," ">>, <<" ","@"," ">> >>

\* a mutant of parse_date_without_time: every pattern the string holds is
\* applied, not only the first one
parse_date_without_time_all(date_str) ==
    IF ~truthy(date_str) THEN date_str
    ELSE Str(strip(split_first(split_first(split_first(date_str.s,
             time_patterns[1]), time_patterns[2]), time_patterns[3])))

parse_date_without_time(date_str) ==
    IF ~truthy(date_str) THEN date_str
    ELSE LET found == {k \in 1..Len(time_patterns) : contains(date_str.s, time_patterns[k])}
         IN  IF found = {} THEN Str(strip(date_str.s))
             ELSE LET k == CHOOSE k \in found : \A j \in found : k <= j
                  IN  Str(strip(split_first(date_str.s, time_patterns[k])))

width == 1024
height == 1024
logo_size == 120
logo_padding == 40
\* line_height_multiplier = 1.2, in tenths
line_height_multiplier == 12

NoElem == [type |-> "none", x |-> 0, y |-> 0, width |-> 0, height |-> 0,
           text |-> <<>>, font_size |-> 0, font_weight |-> "None",
           fill |-> <<>>, href |-> "", text_anchor |-> ""]

background ==
    [NoElem EXCEPT !.type = "Rect", !.x = 0, !.y = 0, !.width = width * 10,
                   !.height = height * 10, !.fill = <<"#","0","0","0","0","0","0">>]

logo ==
    [NoElem EXCEPT !.type = "Image", !.href = "files/APS logo-black.svg",
                   !.x = logo_padding * 10, !.y = logo_padding * 10,
                   !.width = logo_size * 10, !.height = logo_size * 10]

events_text ==
    [NoElem EXCEPT !.type = "Text", !.x = (width * 10) \div 2,
                   !.y = logo_padding * 10 + (logo_size * 10) \div 2,
                   !.text = <<"P","a","l","a","e","o"," ","E","v","e","n","t","s","!">>, !.font_size = 64,
                   !.font_weight = "bold", !.fill = TEXT_COLOUR,
                   !.text_anchor = "middle"]

\* a mutant of line_advance: the multiplier is forgotten
line_advance_plain(font_size) == font_size * 10

\* font_size * line_height_multiplier, what a block adds to current_y_offset
line_advance(font_size) == font_size * line_height_multiplier

\* content_start_y = (height - total_content_height) / 2
content_start(total_content_height) == (height * 10 - total_content_height) \div 2

\* one "if (field := event_data.get(...)):" block: acc is
\* [content_elements, current_y_offset]
add_block(acc, value, text, font_size, font_weight) ==
    IF truthy(value)
    THEN [content_elements |->
              Append(acc.content_elements,
                     [text |-> text, font_size |-> font_size,
                      font_weight |-> font_weight, fill |-> TEXT_COLOUR,
                      y_offset |-> acc.current_y_offset]),
          current_y_offset |-> acc.current_y_offset + line_advance(font_size)]
    ELSE acc

\* the Text element of one collected block
text_elem(elem_data, content_x, content_start_y) ==
    [NoElem EXCEPT !.type = "Text", !.x = content_x,
                   !.y = content_start_y + elem_data.y_offset,
                   !.text = elem_data.text, !.font_size = elem_data.font_size,
                   !.fill = elem_data.fill, !.text_anchor = "middle",
                   !.font_weight = elem_data.font_weight]

\* lines 186-203: the collected blocks as Text elements, the group centred
centred(acc) ==
    [i \in 1..Len(acc.content_elements) |->
        text_elem(acc.content_elements[i], (width * 10) \div 2,
                  content_start(acc.current_y_offset))]

generate_svg(ev) ==
    LET title == dict_get(ev.title)
        subtitle == dict_get(ev.subtitle)
        host == dict_get(ev.host)
        date == dict_get(ev.date)
        location == dict_get(ev.location)
        a0 == [content_elements |-> <<>>, current_y_offset |-> 0]
        a1 == add_block(a0, title, title.s, 72, "bold")
        a2 == add_block(a1, subtitle, subtitle.s, 48, "None")
        a3 == add_block(a2, host, host.s, 40, "None")
        a4 == add_block(a3, date, parse_date_without_time(date).s, 40, "None")
    IN  [width |-> width, height |-> height,
         elements |-> <<background, logo, events_text>> \o
             centred(add_block(a4, location, location.s, 40, "None"))]

NoSvg == [width |-> 0, height |-> 0, elements |-> <<>>]

-----------------------------------------------------------------------------
(* datetime.strptime and strftime, as generate.py uses them (C locale) *)

lower_letters == <<"a","b","c","d","e","f","g","h","i","j","k","l","m","n","o","p","q","r","s","t","u","v","w","x","y","z">>
upper_letters == <<"A","B","C","D","E","F","G","H","I","J","K","L","M","N","O","P","Q","R","S","T","U","V","W","X","Y","Z">>
digits == <<"0","1","2","3","4","5","6","7","8","9">>

\* c.lower(): the regular expression is compiled with IGNORECASE
lower(c) ==
    IF \E i \in 1..26 : upper_letters[i] = c
    THEN lower_letters[CHOOSE i \in 1..26 : upper_letters[i] = c]
    ELSE c

lower_str(s) == [i \in 1..Len(s) |-> lower(s[i])]

Digit == {digits[i] : i \in 1..10}
Digit19 == Digit \ {"0"}

digit_value(c) == (CHOOSE i \in 1..10 : digits[i] = c) - 1

\* int(s) of a matched group: digits, after an optional space
RECURSIVE int_of(_)
int_of(s) ==
    IF s = <<>> THEN 0
    ELSE IF s[Len(s)] \in Digit
         THEN int_of(SubSeq(s, 1, Len(s) - 1)) * 10 + digit_value(s[Len(s)])
         ELSE int_of(SubSeq(s, 1, Len(s) - 1))

\* str(n) of n >= 0
RECURSIVE str_of(_)
str_of(n) ==
    IF n < 10 THEN <<digits[n + 1]>> ELSE str_of(n \div 10) \o <<digits[(n % 10) + 1]>>

month_names == << <<"J","a","n","u","a","r","y">>, <<"F","e","b","r","u","a","r","y">>, <<"M","a","r","c","h">>, <<"A","p","r","i","l">>, <<"M","a","y">>, <<"J","u","n","e">>,
                  <<"J","u","l","y">>, <<"A","u","g","u","s","t">>, <<"S","e","p","t","e","m","b","e","r">>, <<"O","c","t","o","b","e","r">>, <<"N","o","v","e","m","b","e","r">>,
                  <<"D","e","c","e","m","b","e","r">> >>

\* weekday() counts from Monday = 0: day_names[weekday + 1]
day_names == << <<"M","o","n","d","a","y">>, <<"T","u","e","s","d","a","y">>, <<"W","e","d","n","e","s","d","a","y">>, <<"T","h","u","r","s","d","a","y">>, <<"F","r","i","d","a","y">>,
                <<"S","a","t","u","r","d","a","y">>, <<"S","u","n","d","a","y">> >>

\* the alternatives of a list of names: [cls, val], val the name's number
name_alts(names, abbreviated) ==
    [i \in 1..Len(names) |->
        LET nm == lower_str(IF abbreviated THEN SubSeq(names[i], 1, 3) ELSE names[i])
        IN  [cls |-> [j \in 1..Len(nm) |-> {nm[j]}], val |-> i]]

\* the alternation is written longest name first, names of one length in
\* the list's order
longest_first(alts) ==
    LET n == Len(alts)
        key(i) == i - Len(alts[i].cls) * (n + 1)
        rank(i) == Cardinality({j \in 1..n : key(j) < key(i)}) + 1
    IN  [r \in 1..n |-> alts[CHOOSE i \in 1..n : rank(i) = r]]

\* the regular expression of a directive, as its alternatives in order;
\* val -1: the group's text is a number
directive_alts(c) ==
    CASE c = "Y" -> << [cls |-> <<Digit, Digit, Digit, Digit>>, val |-> -1] >>
      [] c = "m" -> << [cls |-> <<{"1"}, {"0", "1", "2"}>>, val |-> -1],
                       [cls |-> <<{"0"}, Digit19>>, val |-> -1],
                       [cls |-> <<Digit19>>, val |-> -1] >>
      [] c = "d" -> << [cls |-> <<{"3"}, {"0", "1"}>>, val |-> -1],
                       [cls |-> <<{"1", "2"}, Digit>>, val |-> -1],
                       [cls |-> <<{"0"}, Digit19>>, val |-> -1],
                       [cls |-> <<Digit19>>, val |-> -1],
                       [cls |-> <<{" "}, Digit19>>, val |-> -1] >>
      [] c = "B" -> longest_first(name_alts(month_names, FALSE))
      [] c = "b" -> longest_first(name_alts(month_names, TRUE))
      [] c = "A" -> longest_first(name_alts(day_names, FALSE))
      [] OTHER -> <<>>

\* TimeRE.pattern(format): directives, runs of whitespace (\s+) and literals
RECURSIVE pattern(_)
pattern(format) ==
    IF format = <<>> THEN <<>>
    ELSE IF Head(format) = "%" /\ Len(format) >= 2
         THEN <<[kind |-> "dir", c |-> format[2]]>> \o pattern(SubSeq(format, 3, Len(format)))
    ELSE IF Head(format) \in Whitespace
         THEN <<[kind |-> "ws", c |-> " "]>> \o pattern(lstrip(format))
    ELSE <<[kind |-> "lit", c |-> Head(format)]>> \o pattern(Tail(format))

\* how many whitespace characters r starts with
RECURSIVE ws_run(_)
ws_run(r) == IF r # <<>> /\ Head(r) \in Whitespace THEN 1 + ws_run(Tail(r)) ELSE 0

\* the ways one element matches at the head of r, in the order the regular
\* expression engine tries them: [len, val]
\* the alternatives that match at the head of r, as [len, val]
alt_matches(hits, r) ==
    [k \in 1..Len(hits) |->
        [len |-> Len(hits[k].cls),
         val |-> IF hits[k].val = -1
                 THEN int_of(SubSeq(r, 1, Len(hits[k].cls)))
                 ELSE hits[k].val]]

\* the greedy \s+: the longest run first
ws_matches(n) == [k \in 1..n |-> [len |-> n + 1 - k, val |-> 0]]

elem_matches(elem, r) ==
    IF elem.kind = "lit"
    THEN IF r # <<>> /\ lower(r[1]) = lower(elem.c) THEN <<[len |-> 1, val |-> 0]>> ELSE <<>>
    ELSE IF elem.kind = "ws"
    THEN ws_matches(ws_run(r))
    ELSE alt_matches(
             SelectSeq(directive_alts(elem.c),
                       LAMBDA a : /\ Len(a.cls) <= Len(r)
                                  /\ \A i \in 1..Len(a.cls) : lower(r[i]) \in a.cls[i]),
             r)

NoMatch == [ok |-> FALSE, end |-> 0, Y |-> 0, month |-> 0, d |-> 0, A |-> 0]

\* the named groups: %m, %B and %b all give the month
bind(found, elem, m) ==
    IF elem.kind # "dir" THEN found
    ELSE CASE elem.c = "Y" -> [found EXCEPT !.Y = m.val]
           [] elem.c \in {"m", "B", "b"} -> [found EXCEPT !.month = m.val]
           [] elem.c = "d" -> [found EXCEPT !.d = m.val]
           [] elem.c = "A" -> [found EXCEPT !.A = m.val]
           [] OTHER -> found

\* re.match of the compiled format at the start of s, backtracking over the
\* alternatives in order; the match need not reach the end of s
\* the first of two matches that succeeded
first_match(r, otherwise) == IF r.ok THEN r ELSE otherwise

RECURSIVE re_match(_, _, _, _, _)
RECURSIVE try_alts(_, _, _, _, _, _, _)
re_match(elems, i, s, pos, found) ==
    IF i > Len(elems) THEN [found EXCEPT !.ok = TRUE, !.end = pos]
    ELSE try_alts(elems, i, s, pos, found,
                  elem_matches(elems[i], SubSeq(s, pos, Len(s))), 1)

try_alts(elems, i, s, pos, found, ms, k) ==
    IF k > Len(ms) THEN NoMatch
    ELSE first_match(
             re_match(elems, i + 1, s, pos + ms[k].len, bind(found, elems[i], ms[k])),
             try_alts(elems, i, s, pos, found, ms, k + 1))

is_leap(y) == (y % 4 = 0) /\ ((y % 100 # 0) \/ (y % 400 = 0))

days_in_month(y, m) ==
    IF m = 2 THEN (IF is_leap(y) THEN 29 ELSE 28)
    ELSE IF m \in {4, 6, 9, 11} THEN 30 ELSE 31

RECURSIVE days_before_month(_, _)
days_before_month(y, m) ==
    IF m <= 1 THEN 0 ELSE days_before_month(y, m - 1) + days_in_month(y, m - 1)

days_before_year(y) ==
    (y - 1) * 365 + (y - 1) \div 4 - (y - 1) \div 100 + (y - 1) \div 400

\* date.toordinal()
toordinal(y, m, d) == days_before_year(y) + days_before_month(y, m) + d

\* date.weekday(): Monday is 0
weekday(y, m, d) == (toordinal(y, m, d) + 6) % 7

ValueError(what) == [ok |-> FALSE, error |-> "ValueError", what |-> what,
                     year |-> 0, month |-> 0, day |-> 0]

\* datetime.strptime(date_string, format): the parsed date, or ValueError;
\* a weekday the string writes (%A) is matched and then not used
\* what _strptime does with the match: the whole string must be used and
\* the date must exist
date_of_match(found, date_string) ==
    IF ~found.ok THEN ValueError("does not match format")
    ELSE IF found.end # Len(date_string) + 1
         THEN ValueError("unconverted data remains")
    ELSE IF found.Y < 1 THEN ValueError("year is out of range")
    ELSE IF found.d > days_in_month(found.Y, found.month)
         THEN ValueError("day is out of range for month")
    ELSE [ok |-> TRUE, error |-> "", what |-> "",
          year |-> found.Y, month |-> found.month, day |-> found.d]

strptime(date_string, format) ==
    date_of_match(re_match(pattern(format), 1, date_string, 1, NoMatch), date_string)

-----------------------------------------------------------------------------
(* generate.py: generate_content_txt *)

\* a mutant of date_formats: DD/MM/YYYY is tried before MM/DD/YYYY
date_formats_day_first ==
    << <<"%","Y","-","%","m","-","%","d">>, <<"%","B"," ","%","d",","," ","%","Y">>, <<"%","b"," ","%","d",","," ","%","Y">>, <<"%","d","/","%","m","/","%","Y">>, <<"%","m","/","%","d","/","%","Y">>,
       <<"%","A",","," ","%","B"," ","%","d",","," ","%","Y">>, <<"%","A",","," ","%","b"," ","%","d",","," ","%","Y">> >>

date_formats ==
    << <<"%","Y","-","%","m","-","%","d">>, <<"%","B"," ","%","d",","," ","%","Y">>, <<"%","b"," ","%","d",","," ","%","Y">>, <<"%","m","/","%","d","/","%","Y">>, <<"%","d","/","%","m","/","%","Y">>,
       <<"%","A",","," ","%","B"," ","%","d",","," ","%","Y">>, <<"%","A",","," ","%","b"," ","%","d",","," ","%","Y">> >>

\* parsed_date = None
NotParsed == [ok |-> FALSE, error |-> "", what |-> "", year |-> 0, month |-> 0, day |-> 0]

\* try: the parse breaks the loop; except ValueError: continue
try_except(r, continue) ==
    IF r.ok THEN r ELSE IF r.error = "ValueError" THEN continue ELSE r

\* a mutant of try_formats: the ValueError of a format that does not parse
\* is not caught
try_formats_uncaught(date_str, k) ==
    IF k > Len(date_formats) THEN NotParsed ELSE strptime(date_str, date_formats[k])

\* the loop "for fmt in date_formats" from the k-th format on: the first
\* parse breaks the loop, a ValueError goes on to the next format, any other
\* error leaves the function
RECURSIVE try_formats(_, _)
try_formats(date_str, k) ==
    IF k > Len(date_formats) THEN NotParsed
    ELSE try_except(strptime(date_str, date_formats[k]), try_formats(date_str, k + 1))

\* parsed_date.strftime('%A')
day_name_of(date_str, parsed_date) ==
    day_names[weekday(parsed_date.year, parsed_date.month, parsed_date.day) + 1]

\* f"{month_name} {day_num}"
month_day(parsed_date) ==
    month_names[parsed_date.month] \o <<" ">> \o str_of(parsed_date.day)

\* lines 243-244 and 266-271: day_name and formatted_date, from
\* parsed_date when there is one
inferred_from(date_str, parsed_date) ==
    IF parsed_date.error # ""
    THEN [day_name |-> Str(<<>>), formatted_date |-> date_str, error |-> parsed_date.error]
    ELSE IF parsed_date.ok
    THEN [day_name |-> Str(day_name_of(date_str.s, parsed_date)),
          formatted_date |-> Str(month_day(parsed_date)), error |-> ""]
    ELSE [day_name |-> Str(<<>>), formatted_date |-> date_str, error |-> ""]

\* lines 246-264: the formats are tried on a date_str that is not empty
parse_date_str(date_str) ==
    inferred_from(date_str, IF truthy(date_str) THEN try_formats(date_str.s, 1) ELSE NotParsed)

\* lines 242-271: [day_name, formatted_date, error]
infer_date(ev) == parse_date_str(dict_get_default(ev.date, Str(<<>>)))

\* a value inside an f-string: str(None) is "None"
fstr(v) == IF v.tag = "str" THEN v.s ELSE <<"N","o","n","e">>

\* lines 274-292: the parts of the line and " ".join of them, which raises
\* TypeError when a part is not a str
build_line(ev, inf) ==
    LET title == dict_get_default(ev.title, Str(<<"E","v","e","n","t">>))
        location == dict_get_default(ev.location, Str(<<>>))
        host == dict_get_default(ev.host, Str(<<>>))
        first == IF truthy(inf.day_name) /\ truthy(inf.formatted_date)
                 THEN Str(fstr(inf.day_name) \o <<","," ">> \o fstr(inf.formatted_date)
                          \o <<":"," ">> \o fstr(title))
                 ELSE IF truthy(inf.formatted_date)
                 THEN Str(fstr(inf.formatted_date) \o <<":"," ">> \o fstr(title))
                 ELSE title
        p1 == <<first>>
        p2 == IF truthy(location) THEN Append(p1, Str(<<"@"," ">> \o fstr(location))) ELSE p1
        event_line_parts == IF truthy(host) THEN Append(p2, Str(<<"(">> \o fstr(host) \o <<")">>))
                            ELSE p2
    IN  IF \E i \in 1..Len(event_line_parts) : event_line_parts[i].tag # "str"
        THEN [line |-> <<>>, error |-> "TypeError"]
        ELSE [line |-> join(<<" ">>, [i \in 1..Len(event_line_parts) |-> event_line_parts[i].s]),
              error |-> ""]

footer ==
    << <<>>, <<"F","o","r"," ","m","o","r","e"," ","i","n","f","o","r","m","a","t","i","o","n",":"," ","s","e","e"," ","h","t","t","p","s",":","/","/","a","l","b","e","r","t","a","p","a","l","e","o",".","o","r","g","/","e","v","e","n","t","s","/","c","a","l","e","n","d","a","r">>,
       <<>>, <<"#","p","a","l","a","e","o","n","t","o","l","o","g","y"," ","#","p","a","l","e","o","n","t","o","l","o","g","y"," ","#","f","o","s","s","i","l","s"," ","#","d","i","n","o","s","a","u","r","s"," ","#","e","v","e","n","t","s">> >>

\* the loop over events_data from the i-th event on, then the footer and
\* the join; an error leaves the function where it is raised
RECURSIVE content_loop(_, _, _, _)

\* the rest of one turn of the loop, once the line is built or has raised
append_line(events, i, lines, inferred, b) ==
    IF b.error # ""
    THEN [status |-> "raised", text |-> <<>>, lines |-> lines,
          inferred |-> inferred, error |-> b.error]
    ELSE content_loop(events, i + 1, Append(lines, b.line), inferred)

\* one turn of the loop, once the date is inferred
event_line(events, i, lines, inferred, inf) ==
    IF inf.error # ""
    THEN [status |-> "raised", text |-> <<>>, lines |-> lines,
          inferred |-> inferred, error |-> inf.error]
    ELSE append_line(events, i, lines,
                     Append(inferred, [day_name |-> inf.day_name,
                                       formatted_date |-> inf.formatted_date]),
                     build_line(events[i], inf))

content_loop(events, i, lines, inferred) ==
    IF i > Len(events)
    THEN [status |-> "returned", text |-> join(<<"\n">>, lines \o footer), lines |-> lines,
          inferred |-> inferred, error |-> ""]
    ELSE event_line(events, i, lines, inferred, infer_date(events[i]))

generate_content_txt(events) == content_loop(events, 1, <<>>, <<>>)

-----------------------------------------------------------------------------
(* Inputs *)

NoEvent == [isdict |-> TRUE, title |-> Missing, subtitle |-> Missing,
            host |-> Missing, date |-> Missing, location |-> Missing]

\* date strings as the API may write them
DateStrings == {
    <<"2","0","2","4","-","1","2","-","0","5">>,
    <<"D","e","c","e","m","b","e","r"," ","5",","," ","2","0","2","4">>,
    <<"D","e","c"," ","5",","," ","2","0","2","4">>,
    <<"1","2","/","0","5","/","2","0","2","4">>,
    <<"1","3","/","1","2","/","2","0","2","4">>,
    <<"W","e","d","n","e","s","d","a","y",","," ","D","e","c","e","m","b","e","r"," ","5",","," ","2","0","2","4">>,
    <<"W","e","d","n","e","s","d","a","y",","," ","D","e","c"," ","5",","," ","2","0","2","4">>,
    <<"s","o","m","e","t","i","m","e"," ","n","e","x","t"," ","w","e","e","k">>,
    <<"2","0","2","4","-","1","2","-","0","5","T","1","8",":","0","0",":","0","0">>,
    <<"J","a","n"," ","1","0"," ","a","t"," ","7","p","m">>,
    <<"D","e","c"," ","5",","," ","2","0","2","4"," ","@"," ","7","p","m">>,
    <<"T","u","e","s","d","a","y",","," ","D","e","c"," ","3"," ","a","t"," ","7","p","m">>,
    <<"D","e","c"," ","5"," ","@"," ","n","o","o","n"," ","a","t"," ","h","o","m","e">>,
    <<" ","D","e","c"," ","5",","," ","2","0","2","4"," ">>,
    <<"2","0","2","3","-","0","2","-","2","9">>,
    <<"2","0","2","4","-","0","2","-","2","9">>,
    <<"m","a","y"," "," ","5",","," ","2","0","2","4">>,
    <<"2","0","2","4","-","1","2","-"," ","5">>,
    <<"0","0","0","0","-","0","1","-","0","1">>,
    <<"1","2","/","0","5","/","2","0","2","4","5">>,
    <<" ">> }

DateValues == {Missing, None, Str(<<>>)} \cup {Str(d) : d \in DateStrings}

\* the records generate_svg is run on
SvgRecords ==
    [isdict : {TRUE},
     title : {Missing, None, Str(<<>>), Str(<<"T","a","l","k">>)},
     subtitle : {Missing, Str(<<>>), Str(<<"M","o","n","t","h","l","y"," ","M","e","e","t","i","n","g">>)},
     host : {Missing, None, Str(<<"D","r","."," ","X">>)},
     date : DateValues,
     location : {Missing, Str(<<"C","a","l","g","a","r","y">>)}]

\* the records a batch of one is drawn from
DigestRecords ==
    [isdict : {TRUE},
     title : {Missing, None, Str(<<>>), Str(<<"T","a","l","k">>)},
     subtitle : {Missing},
     host : {Missing, Str(<<"D","r","."," ","X">>)},
     date : DateValues,
     location : {Missing, None, Str(<<"C","a","l","g","a","r","y">>)}]

\* the records longer batches are drawn from
BatchRecords == {
    NoEvent,
    [NoEvent EXCEPT !.title = None],
    [NoEvent EXCEPT !.title = Str(<<"T","a","l","k">>), !.date = Str(<<"2","0","2","4","-","1","2","-","0","5">>),
                    !.location = Str(<<"C","a","l","g","a","r","y">>), !.host = Str(<<"D","r","."," ","X">>)],
    [NoEvent EXCEPT !.title = Str(<<"F","i","e","l","d"," ","T","r","i","p">>), !.date = Str(<<"1","2","/","0","5","/","2","0","2","4">>)],
    [NoEvent EXCEPT !.title = Str(<<"D","i","g">>), !.subtitle = Str(<<"B","r","i","n","g"," ","b","o","o","t","s">>),
                    !.date = Str(<<"W","e","d","n","e","s","d","a","y",","," ","D","e","c","e","m","b","e","r"," ","5",","," ","2","0","2","4">>),
                    !.location = Str(<<"D","r","u","m","h","e","l","l","e","r">>)],
    [NoEvent EXCEPT !.title = Str(<<"S","o","c","i","a","l">>), !.date = Str(<<"s","o","m","e","t","i","m","e"," ","n","e","x","t"," ","w","e","e","k">>),
                    !.host = Str(<<"D","r","."," ","X">>)] }

\* the batches of at most MaxEvents records
Batches == UNION {[1..n -> BatchRecords] : n \in 0..MaxEvents}

NoContent == [status |-> "none", text |-> <<>>, lines |-> <<>>, inferred |-> <<>>,
              error |-> ""]
NoResponse == [kind |-> "none", items |-> <<>>]

NoArgs == [start_date |-> None, end_date |-> None]

\* the variables only main writes
main_vars == <<args, dry_run, response, index, files, dir_created, exit_code, failed>>

\* main is not running
NotInMain ==
    /\ args = NoArgs
    /\ dry_run = FALSE
    /\ response = NoResponse
    /\ index = 0
    /\ files = <<>>
    /\ dir_created = FALSE
    /\ exit_code = -1
    /\ failed = {}
    /\ log = <<>>

-----------------------------------------------------------------------------
(* generate_svg, run on one event record *)

InitSvg ==
    /\ pc = "generate_svg"
    /\ event_data \in SvgRecords
    /\ logo_exists \in BOOLEAN
    /\ svg_element = NoSvg
    /\ events_data = <<>>
    /\ content_txt = NoContent
    /\ NotInMain

\* a mutant of GenerateSvg: a logo file that does not exist raises
\* FileNotFoundError, as the docstring of generate_svg announces
GenerateSvg_raising ==
    /\ pc = "generate_svg"
    /\ svg_element' = IF logo_exists THEN generate_svg(event_data) ELSE svg_element
    /\ pc' = IF logo_exists THEN "returned" ELSE "raised"
    /\ UNCHANGED <<event_data, logo_exists, events_data, content_txt, main_vars, log>>

GenerateSvg ==
    /\ pc = "generate_svg"
    /\ svg_element' = generate_svg(event_data)
    /\ log' = IF logo_exists THEN log
              ELSE Append(log, [level |-> "warning", what |-> "logo file not found"])
    /\ pc' = "returned"
    /\ UNCHANGED <<event_data, logo_exists, events_data, content_txt, main_vars>>

NextSvg == GenerateSvg

SpecSvg == InitSvg /\ [][NextSvg]_vars

-----------------------------------------------------------------------------
(* generate_content_txt, run on one batch *)

InitDigest ==
    /\ pc = "generate_content_txt"
    /\ events_data \in {<<r>> : r \in DigestRecords} \cup Batches
    /\ content_txt = NoContent
    /\ event_data = NoEvent
    /\ logo_exists = TRUE
    /\ svg_element = NoSvg
    /\ NotInMain

GenerateContentTxt ==
    /\ pc = "generate_content_txt"
    /\ content_txt' = generate_content_txt(events_data)
    /\ pc' = content_txt'.status
    /\ UNCHANGED <<event_data, logo_exists, svg_element, events_data, log, main_vars>>

NextDigest == GenerateContentTxt

SpecDigest == InitDigest /\ [][NextDigest]_vars

-----------------------------------------------------------------------------
(* validators.py *)

\* validate_date_format: TRUE when the string parses as YYYY-MM-DD,
\* FALSE for the ValueError
validate_date_format(date_str) == strptime(date_str, <<"%","Y","-","%","m","-","%","d">>).ok

\* start_dt > end_dt, for two dates
later(start_dt, end_dt) ==
    toordinal(start_dt.year, start_dt.month, start_dt.day)
        > toordinal(end_dt.year, end_dt.month, end_dt.day)

\* validate_date_range: FALSE for the ValueError of a start after the end
validate_date_range(start_date, end_date) ==
    ~later(strptime(start_date, <<"%","Y","-","%","m","-","%","d">>), strptime(end_date, <<"%","Y","-","%","m","-","%","d">>))

\* a mutant of validate_api_response: an element that is no dictionary is
\* skipped instead of refused
validate_api_response_skipping(response_data) ==
    IF response_data.kind # "list"
    THEN [ok |-> FALSE, error |-> "ValueError", events |-> <<>>]
    ELSE [ok |-> TRUE, error |-> "",
          events |-> SelectSeq(response_data.items, LAMBDA e : e.isdict)]

\* validate_api_response: the list itself when it is a list of
\* dictionaries, ValueError otherwise
validate_api_response(response_data) ==
    IF response_data.kind # "list"
    THEN [ok |-> FALSE, error |-> "ValueError", events |-> <<>>]
    ELSE IF \E i \in 1..Len(response_data.items) : ~response_data.items[i].isdict
    THEN [ok |-> FALSE, error |-> "ValueError", events |-> <<>>]
    ELSE [ok |-> TRUE, error |-> "",
          events |-> [i \in 1..Len(response_data.items) |-> response_data.items[i]]]

-----------------------------------------------------------------------------
(* generate.py: main *)

\* an element of the response that is no dictionary (a JSON string, say)
NotADict == [NoEvent EXCEPT !.isdict = FALSE]

\* what client.get_events gives: an error it raises (the request failed, or
\* the JSON value has no len()), a JSON object, or a list of at most
\* MaxEvents elements
Responses ==
    {[kind |-> "error", items |-> <<>>], [kind |-> "dict", items |-> <<>>]}
    \cup {[kind |-> "list", items |-> b] :
             b \in UNION {[1..n -> BatchRecords \cup {NotADict}] : n \in 0..MaxEvents}}

\* the start and end dates of the command line
ArgValues ==
    [start_date : {Str(<<"2","0","2","5","-","0","1","-","1","5">>), Str(<<"0","1","/","1","5","/","2","0","2","5">>)},
     end_date : {None, Str(<<"2","0","2","5","-","0","1","-","2","0">>), Str(<<"2","0","2","5","-","0","1","-","1","0">>), Str(<<"J","a","n"," ","2","0">>)}]

\* f"event_{index:02d}.svg"
svg_filename(i) ==
    <<"e","v","e","n","t","_">> \o (IF i < 10 THEN <<"0">> ELSE <<>>) \o str_of(i) \o <<".","s","v","g">>

Init ==
    /\ pc = "validate_args"
    /\ args \in ArgValues
    /\ dry_run \in BOOLEAN
    /\ response = NoResponse
    /\ events_data = <<>>
    /\ index = 0
    /\ files = <<>>
    /\ dir_created = FALSE
    /\ exit_code = -1
    /\ failed = {}
    /\ log = <<>>
    /\ event_data = NoEvent
    /\ logo_exists = TRUE
    /\ svg_element = NoSvg
    /\ content_txt = NoContent

\* lines 93-105 and 180-182: the dates of the command line; a ValueError
\* ends main with status 1
ValidateArgs ==
    /\ pc = "validate_args"
    /\ LET ok == /\ validate_date_format(args.start_date.s)
                 /\ truthy(args.end_date) =>
                        /\ validate_date_format(args.end_date.s)
                        /\ validate_date_range(args.start_date.s, args.end_date.s)
       IN  IF ok
           THEN /\ pc' = "mkdir"
                /\ UNCHANGED <<exit_code, log>>
           ELSE /\ pc' = "exit"
                /\ exit_code' = 1
                /\ log' = Append(log, [level |-> "error", what |-> "Validation error", n |-> 0])
    /\ UNCHANGED <<event_data, logo_exists, svg_element, events_data, content_txt,
                   args, dry_run, response, index, files, dir_created, failed>>

\* lines 113-117
MakeOutputDir ==
    /\ pc = "mkdir"
    /\ dir_created' = ~dry_run
    /\ log' = Append(log, [level |-> "info",
                           what |-> IF dry_run THEN "DRY RUN: Would create output directory"
                                    ELSE "Output directory",
                           n |-> 0])
    /\ pc' = "fetch"
    /\ UNCHANGED <<event_data, logo_exists, svg_element, events_data, content_txt,
                   args, dry_run, response, index, files, exit_code, failed>>

\* lines 125 and 127-134: client.get_events; an error it raises ends main
\* with status 1
FetchEvents ==
    /\ pc = "fetch"
    /\ \E r \in Responses :
          /\ response' = r
          /\ IF r.kind = "error"
             THEN /\ pc' = "exit"
                  /\ exit_code' = 1
                  /\ log' = Append(log, [level |-> "error",
                                         what |-> "Failed to fetch event data", n |-> 0])
             ELSE /\ pc' = "validate"
                  /\ UNCHANGED <<exit_code, log>>
    /\ UNCHANGED <<event_data, logo_exists, svg_element, events_data, content_txt,
                   args, dry_run, index, files, dir_created, failed>>

\* lines 126-140: validate_api_response in the same try block, then the
\* return of an empty batch
ValidateResponse ==
    /\ pc = "validate"
    /\ LET v == validate_api_response(response)
       IN  IF ~v.ok
           THEN /\ pc' = "exit"
                /\ exit_code' = 1
                /\ log' = Append(log, [level |-> "error",
                                       what |-> "Failed to fetch event data", n |-> 0])
                /\ UNCHANGED events_data
           ELSE /\ events_data' = v.events
                /\ IF Len(v.events) = 0
                   THEN /\ pc' = "done"
                        /\ exit_code' = 0
                        /\ log' = log \o <<[level |-> "info", what |-> "Found events", n |-> 0],
                                           [level |-> "warning", what |-> "No events found",
                                            n |-> 0]>>
                   ELSE /\ pc' = "process_event"
                        /\ UNCHANGED exit_code
                        /\ log' = Append(log, [level |-> "info", what |-> "Found events",
                                               n |-> Len(v.events)])
    /\ UNCHANGED <<event_data, logo_exists, svg_element, content_txt,
                   args, dry_run, response, index, files, dir_created, failed>>

\* lines 143-164, one turn of the loop: generate_svg, then the file unless
\* in a dry run; an exception of generate_svg, of str() or of write_text is
\* logged and the loop goes on
ProcessEvent ==
    /\ pc = "process_event"
    /\ index < Len(events_data)
    /\ event_data' = events_data[index + 1]
    /\ \E raises \in BOOLEAN :
          IF raises
          THEN /\ failed' = failed \cup {index + 1}
               /\ log' = Append(log, [level |-> "error",
                                      what |-> "Failed to generate SVG for event",
                                      n |-> index + 1])
               /\ UNCHANGED <<svg_element, files>>
          ELSE /\ svg_element' = generate_svg(events_data[index + 1])
               /\ files' = IF dry_run THEN files
                           ELSE Append(files, [name |-> svg_filename(index),
                                               svg |-> svg_element', text |-> <<>>])
               /\ log' = Append(log, [level |-> "info",
                                      what |-> IF dry_run THEN "DRY RUN: Would create"
                                               ELSE "Successfully created",
                                      n |-> index + 1])
               /\ UNCHANGED failed
    /\ index' = index + 1
    /\ pc' = IF index + 1 < Len(events_data) THEN "process_event" ELSE "content"
    /\ UNCHANGED <<logo_exists, events_data, content_txt, args, dry_run, response,
                   dir_created, exit_code>>

\* a mutant of WriteContent: content.txt is written in a dry run too
WriteContent_always ==
    /\ pc = "content"
    /\ content_txt' = generate_content_txt(events_data)
    /\ IF content_txt'.status = "raised"
       THEN /\ pc' = "exit"
            /\ exit_code' = 1
            /\ log' = Append(log, [level |-> "error", what |-> "Unexpected error", n |-> 0])
            /\ UNCHANGED files
       ELSE /\ pc' = "done"
            /\ exit_code' = 0
            /\ files' = Append(files, [name |-> <<"c","o","n","t","e","n","t",".","t","x","t">>, svg |-> NoSvg,
                                       text |-> content_txt'.text])
            /\ log' = Append(log, [level |-> "info", what |-> "Completed",
                                   n |-> Len(events_data)])
    /\ UNCHANGED <<event_data, logo_exists, svg_element, events_data, args, dry_run,
                   response, index, dir_created, failed>>

\* lines 166-178 and 186-188: the digest; an exception of
\* generate_content_txt ends main with status 1
WriteContent ==
    /\ pc = "content"
    /\ content_txt' = generate_content_txt(events_data)
    /\ IF content_txt'.status = "raised"
       THEN /\ pc' = "exit"
            /\ exit_code' = 1
            /\ log' = Append(log, [level |-> "error", what |-> "Unexpected error", n |-> 0])
            /\ UNCHANGED files
       ELSE /\ pc' = "done"
            /\ exit_code' = 0
            /\ files' = IF dry_run THEN files
                        ELSE Append(files, [name |-> <<"c","o","n","t","e","n","t",".","t","x","t">>, svg |-> NoSvg,
                                            text |-> content_txt'.text])
            /\ log' = Append(log, [level |-> "info",
                                   what |-> IF dry_run THEN "DRY RUN: Would create content.txt"
                                            ELSE "Completed", n |-> Len(events_data)])
    /\ UNCHANGED <<event_data, logo_exists, svg_element, events_data, args, dry_run,
                   response, index, dir_created, failed>>

Next ==
    \/ ValidateArgs
    \/ MakeOutputDir
    \/ FetchEvents
    \/ ValidateResponse
    \/ ProcessEvent
    \/ WriteContent

Spec == Init /\ [][Next]_vars

-----------------------------------------------------------------------------
(* What the claims say, stated without the code's own helpers *)

\* a field is present: non-null and non-empty
Present(v) == v.tag = "str" /\ Len(v.s) > 0

FieldOrder == <<"title", "subtitle", "host", "date", "location">>

FontSizeOf(f) == IF f = "title" THEN 72 ELSE IF f = "subtitle" THEN 48 ELSE 40

\* the present fields of a record, in the fixed order
PresentFields(ev) == SelectSeq(FieldOrder, LAMBDA f : Present(ev[f]))

\* the sum of font_size * 1.2 (in tenths) over the first n fields of fs
RECURSIVE StackHeight(_, _)
StackHeight(fs, n) ==
    IF n = 0 THEN 0 ELSE StackHeight(fs, n - 1) + FontSizeOf(fs[n]) * 12

\* p occurs in s at position i
OccursAt(s, p, i) == i >= 1 /\ i + Len(p) - 1 <= Len(s) /\ SubSeq(s, i, i + Len(p) - 1) = p

Occurs(s, p) == \E i \in 1..Len(s) : OccursAt(s, p, i)

\* r is u with its surrounding whitespace removed
IsTrimOf(r, u) ==
    \E a, b \in 0..Len(u) :
        /\ a + b <= Len(u)
        /\ r = SubSeq(u, a + 1, Len(u) - b)
        /\ \A i \in 1..a : u[i] \in {" ", "\t", "\n"}
        /\ \A i \in (Len(u) - b + 1)..Len(u) : u[i] \in {" ", "\t", "\n"}
        /\ r # <<>> => (r[1] \notin {" ", "\t", "\n"} /\ r[Len(r)] \notin {" ", "\t", "\n"})

TimeMarkers == << <<"T">>, <<" ", "a", "t", " ">>, <<" ", "@", " ">> >>

\* r is the date s without its time, as the claim words it
IsDateWithoutTime(r, s) ==
    IF \E k \in 1..3 : Occurs(s, TimeMarkers[k])
    THEN \E k \in 1..3 :
            /\ Occurs(s, TimeMarkers[k])
            /\ \A j \in 1..(k - 1) : ~Occurs(s, TimeMarkers[j])
            /\ \E i \in 1..Len(s) :
                  /\ OccursAt(s, TimeMarkers[k], i)
                  /\ \A h \in 1..(i - 1) : ~OccursAt(s, TimeMarkers[k], h)
                  /\ IsTrimOf(r, SubSeq(s, 1, i - 1))
    ELSE IsTrimOf(r, s)

\* where the date's content block is in the document's elements
DateBlockIndex(ev) ==
    3 + Cardinality({f \in {"title", "subtitle", "host"} : Present(ev[f])}) + 1

\* C1: the document holds the background, the logo and the header, then
\* exactly one text per present field, in the order title, subtitle, host,
\* date, location, with font size 72, 48, 40, 40, 40 and bold only for the
\* title; with no field present it holds the 3 fixed elements only.
C1_ElementsPerPresentField ==
    pc = "returned" =>
        LET els == svg_element.elements
            pf == PresentFields(event_data)
        IN  /\ Len(els) = 3 + Len(pf)
            /\ els[1].type = "Rect"
            /\ els[2].type = "Image"
            /\ els[3].type = "Text" /\ els[3].text = <<"P","a","l","a","e","o"," ","E","v","e","n","t","s","!">>
            /\ \A j \in 1..Len(pf) :
                  /\ els[3 + j].type = "Text"
                  /\ els[3 + j].font_size = FontSizeOf(pf[j])
                  /\ (els[3 + j].font_weight = "bold") <=> (pf[j] = "title")
                  /\ pf[j] # "date" => els[3 + j].text = event_data[pf[j]].s

\* a record with an absent, a null and an empty field between present ones
C1_Witness ==
    /\ pc = "returned"
    /\ event_data.title = Str(<<>>)
    /\ Present(event_data.subtitle)
    /\ event_data.host = None
    /\ Present(event_data.date)
    /\ Present(event_data.location)
    /\ Len(svg_element.elements) = 6

\* C2: every content block has x = 512 and y = (1024 - total_height) / 2 +
\* offset, the offset being the sum of font_size * 1.2 over the blocks before
\* it and total_height that sum over all blocks; absent fields add nothing.
C2_BlockPositions ==
    pc = "returned" =>
        LET els == svg_element.elements
            pf == PresentFields(event_data)
            total == StackHeight(pf, Len(pf))
        IN  /\ Len(els) = 3 + Len(pf)
            /\ (10240 - total) % 2 = 0
            /\ \A j \in 1..Len(pf) :
                  /\ els[3 + j].x = 5120
                  /\ els[3 + j].y = (10240 - total) \div 2 + StackHeight(pf, j - 1)

\* subtitle and location only: the second block sits 48 * 1.2 under the first
C2_Witness ==
    /\ pc = "returned"
    /\ PresentFields(event_data) = <<"subtitle", "location">>
    /\ svg_element.elements[4].y = 4592
    /\ svg_element.elements[5].y = 5168

\* C7: the date without its time is the prefix before the first occurrence
\* of the first of "T", " at ", " @ " (in that order) that the string holds,
\* trimmed, only that one pattern being applied; the trimmed input when it
\* holds none; an empty or absent input as it is.  The date block of the
\* document shows this text, not the raw date.
C7_DateWithoutTime ==
    pc = "returned" =>
        LET date == dict_get(event_data.date)
        IN  IF Present(date)
            THEN /\ DateBlockIndex(event_data) <= Len(svg_element.elements)
                 /\ IsDateWithoutTime(
                        svg_element.elements[DateBlockIndex(event_data)].text, date.s)
                 /\ parse_date_without_time(date).tag = "str"
                 /\ IsDateWithoutTime(parse_date_without_time(date).s, date.s)
            ELSE parse_date_without_time(date) = date

\* " at " and " @ " both occur: " at " is tried first, although " @ " comes
\* earlier in the string, and the rest is kept as it is
C7_Witness ==
    /\ pc = "returned"
    /\ event_data.date = Str(<<"D","e","c"," ","5"," ","@"," ","n","o","o","n"," ","a","t"," ","h","o","m","e">>)
    /\ svg_element.elements[DateBlockIndex(event_data)].text = <<"D","e","c"," ","5"," ","@"," ","n","o","o","n">>

-----------------------------------------------------------------------------
(* The digest, as the claims word it *)

\* the seven formats, in the order the claim lists them
ClaimFormats ==
    << <<"%","Y","-","%","m","-","%","d">>, <<"%","B"," ","%","d",","," ","%","Y">>, <<"%","b"," ","%","d",","," ","%","Y">>, <<"%","m","/","%","d","/","%","Y">>, <<"%","d","/","%","m","/","%","Y">>,
       <<"%","A",","," ","%","B"," ","%","d",","," ","%","Y">>, <<"%","A",","," ","%","b"," ","%","d",","," ","%","Y">> >>

\* the formats that parse the date of a record
ParsingFormats(ev) ==
    {k \in 1..7 : Present(ev.date) /\ strptime(ev.date.s, ClaimFormats[k]).ok}

\* the weekday of a date by Zeller's congruence: 0 is Saturday
Zeller(y, m, d) ==
    LET mm == IF m < 3 THEN m + 12 ELSE m
        yy == IF m < 3 THEN y - 1 ELSE y
    IN  (d + (13 * (mm + 1)) \div 5 + (yy % 100) + (yy % 100) \div 4
           + (yy \div 100) \div 4 + 5 * (yy \div 100)) % 7

ZellerName(y, m, d) ==
    << <<"S","a","t","u","r","d","a","y">>, <<"S","u","n","d","a","y">>, <<"M","o","n","d","a","y">>, <<"T","u","e","s","d","a","y">>, <<"W","e","d","n","e","s","d","a","y">>, <<"T","h","u","r","s","d","a","y">>,
       <<"F","r","i","d","a","y">> >>[Zeller(y, m, d) + 1]

FullMonth(m) ==
    << <<"J","a","n","u","a","r","y">>, <<"F","e","b","r","u","a","r","y">>, <<"M","a","r","c","h">>, <<"A","p","r","i","l">>, <<"M","a","y">>, <<"J","u","n","e">>, <<"J","u","l","y">>,
       <<"A","u","g","u","s","t">>, <<"S","e","p","t","e","m","b","e","r">>, <<"O","c","t","o","b","e","r">>, <<"N","o","v","e","m","b","e","r">>, <<"D","e","c","e","m","b","e","r">> >>[m]

\* a day of the month without leading zero
DayText(d) ==
    LET ds == <<"0", "1", "2", "3", "4", "5", "6", "7", "8", "9">>
    IN  IF d < 10 THEN <<ds[d + 1]>> ELSE <<ds[(d \div 10) + 1], ds[(d % 10) + 1]>>

\* day_name and formatted_date of a record whose date parses: by the first
\* format, in the claim's order, that parses it
InferredOf(ev) ==
    LET k == CHOOSE k \in ParsingFormats(ev) : \A j \in ParsingFormats(ev) : k <= j
        r == strptime(ev.date.s, ClaimFormats[k])
    IN  [day_name |-> Str(ZellerName(r.year, r.month, r.day)),
         formatted_date |-> Str(FullMonth(r.month) \o <<" ">> \o DayText(r.day))]

\* [day_name, formatted_date] as texts, for any record
ClaimInfer(ev) ==
    IF ParsingFormats(ev) # {}
    THEN [day_name |-> InferredOf(ev).day_name.s,
          formatted_date |-> InferredOf(ev).formatted_date.s]
    ELSE [day_name |-> <<>>,
          formatted_date |-> IF Present(ev.date) THEN ev.date.s ELSE <<>>]

\* the digest line of a record with the title text t
LineWithTitle(ev, t) ==
    LET inf == ClaimInfer(ev)
        start == IF inf.day_name # <<>> /\ inf.formatted_date # <<>>
                 THEN inf.day_name \o <<",", " ">> \o inf.formatted_date \o <<":", " ">> \o t
                 ELSE IF inf.formatted_date # <<>>
                 THEN inf.formatted_date \o <<":", " ">> \o t
                 ELSE t
        at == IF Present(ev.location) THEN <<" ", "@", " ">> \o ev.location.s ELSE <<>>
        by == IF Present(ev.host) THEN <<" ", "(">> \o ev.host.s \o <<")">> ELSE <<>>
    IN  start \o at \o by

\* the title is absent: the key is missing or its value is null
TitleAbsent(ev) == ev.title.tag \in {"missing", "None"}

\* the digest line of a record: the title is "Event" when absent
ClaimLine(ev) ==
    LineWithTitle(ev, IF TitleAbsent(ev) THEN <<"E","v","e","n","t">> ELSE ev.title.s)

\* C3: every record's digest line begins "{day_name}, {formatted_date}:
\* {title}" when both are non-empty, "{formatted_date}: {title}" when only
\* formatted_date is, and is "{title}" otherwise, the inference being that
\* of the raw date; then " @ {location}" and then " ({host})" are appended
\* when present.  (Whatever text stands for an absent title.)
C3_DigestLine ==
    content_txt.status # "none" =>
        \A i \in 1..Len(events_data) :
            /\ i <= Len(content_txt.lines)
            /\ \E t \in {events_data[i].title.s, <<"E","v","e","n","t">>, <<"N","o","n","e">>} :
                  /\ (events_data[i].title.tag = "str" => t = events_data[i].title.s)
                  /\ content_txt.lines[i] = LineWithTitle(events_data[i], t)

\* C3, for the records whose title is not null: checked to hold
C3_DigestLineTitleNotNull ==
    content_txt.status # "none" =>
        \A i \in 1..Len(events_data) :
            (\A j \in 1..i : events_data[j].title.tag # "None") =>
                /\ i <= Len(content_txt.lines)
                /\ content_txt.lines[i] = ClaimLine(events_data[i])

\* C4: the title of the line is "Event" whenever the record's title is
\* absent, a missing key and a null value alike; a record with no fields
\* gives the line "Event".
C4_TitleDefaultsToEvent ==
    content_txt.status # "none" =>
        \A i \in 1..Len(events_data) :
            TitleAbsent(events_data[i]) =>
                /\ i <= Len(content_txt.lines)
                /\ content_txt.lines[i] = LineWithTitle(events_data[i], <<"E","v","e","n","t">>)
                /\ (\A f \in {"date", "location", "host"} : ~Present(events_data[i][f]))
                       => content_txt.lines[i] = <<"E","v","e","n","t">>

\* C5: a date that parses is read by the first of the seven formats, in the
\* claim's order, that parses it (MM/DD/YYYY before DD/MM/YYYY); day_name is
\* the weekday of the parsed year, month and day, not the one written, and
\* formatted_date is the full month name and the day without leading zero.
C5_FirstFormatWins ==
    \A i \in 1..Len(content_txt.inferred) :
        ParsingFormats(events_data[i]) # {} =>
            content_txt.inferred[i] = InferredOf(events_data[i])

\* 12/05/2024 is December 5, not May 12, and the Wednesday written for
\* December 5, 2024 is replaced by Thursday
C5_Witness ==
    /\ content_txt.status = "returned"
    /\ Len(events_data) = 2
    /\ events_data[1].date = Str(<<"1","2","/","0","5","/","2","0","2","4">>)
    /\ content_txt.inferred[1].formatted_date = Str(<<"D","e","c","e","m","b","e","r"," ","5">>)
    /\ events_data[2].date = Str(<<"W","e","d","n","e","s","d","a","y",","," ","D","e","c","e","m","b","e","r"," ","5",","," ","2","0","2","4">>)
    /\ content_txt.inferred[2].day_name = Str(<<"T","h","u","r","s","d","a","y">>)

\* C6: date parsing raises nothing; for a date that matches none of the
\* seven formats (also an empty or absent one) day_name is empty and
\* formatted_date is the date string as it came.
C6_UnparsedDatePassesThrough ==
    /\ content_txt.error # "ValueError"
    /\ content_txt.status # "none" =>
           Len(content_txt.inferred) >= Len(content_txt.lines)
           /\ (Len(content_txt.lines) < Len(events_data)
                  => Len(content_txt.inferred) = Len(content_txt.lines) + 1)
    /\ \A i \in 1..Len(content_txt.inferred) :
           ParsingFormats(events_data[i]) = {} =>
               /\ content_txt.inferred[i].day_name = Str(<<>>)
               /\ Present(events_data[i].date)
                      => content_txt.inferred[i].formatted_date = events_data[i].date
               /\ ~Present(events_data[i].date)
                      => ~Present(content_txt.inferred[i].formatted_date)

\* a date no format parses, given with its time: it is passed through whole
C6_Witness ==
    /\ content_txt.status = "returned"
    /\ Len(events_data) = 1
    /\ events_data[1].date = Str(<<"2","0","2","4","-","1","2","-","0","5","T","1","8",":","0","0",":","0","0">>)
    /\ content_txt.inferred[1].day_name = Str(<<>>)
    /\ content_txt.inferred[1].formatted_date = Str(<<"2","0","2","4","-","1","2","-","0","5","T","1","8",":","0","0",":","0","0">>)

\* the n + 4 lines of the digest, joined by newlines
RECURSIVE JoinLines(_)
JoinLines(ls) ==
    IF Len(ls) = 0 THEN <<>>
    ELSE IF Len(ls) = 1 THEN ls[1]
    ELSE ls[1] \o <<"\n">> \o JoinLines(Tail(ls))

\* C8: for every batch of n records the text returned is n + 4 lines joined
\* by newlines: the records' digest lines in input order, an empty line, the
\* "For more information" line, an empty line and the hashtag line.
C8_DigestText ==
    content_txt.status # "none" =>
        /\ content_txt.status = "returned"
        /\ content_txt.text =
               JoinLines([i \in 1..Len(events_data) |-> ClaimLine(events_data[i])]
                   \o << <<>>,
                         <<"F","o","r"," ","m","o","r","e"," ","i","n","f","o","r","m","a","t","i","o","n",":"," ","s","e","e"," ","h","t","t","p","s",":","/","/","a","l","b","e","r","t","a","p","a","l","e","o",".","o","r","g","/","e","v","e","n","t","s","/","c","a","l","e","n","d","a","r">>,
                         <<>>,
                         <<"#","p","a","l","a","e","o","n","t","o","l","o","g","y"," ","#","p","a","l","e","o","n","t","o","l","o","g","y"," ","#","f","o","s","s","i","l","s"," ","#","d","i","n","o","s","a","u","r","s"," ","#","e","v","e","n","t","s">> >>)

\* C8, for the batches with no null title: checked to hold
C8_DigestTextTitleNotNull ==
    (content_txt.status # "none" /\ \A i \in 1..Len(events_data) : events_data[i].title.tag # "None") =>
        /\ content_txt.status = "returned"
        /\ content_txt.text =
               JoinLines([i \in 1..Len(events_data) |-> ClaimLine(events_data[i])]
                   \o << <<>>,
                         <<"F","o","r"," ","m","o","r","e"," ","i","n","f","o","r","m","a","t","i","o","n",":"," ","s","e","e"," ","h","t","t","p","s",":","/","/","a","l","b","e","r","t","a","p","a","l","e","o",".","o","r","g","/","e","v","e","n","t","s","/","c","a","l","e","n","d","a","r">>,
                         <<>>,
                         <<"#","p","a","l","a","e","o","n","t","o","l","o","g","y"," ","#","p","a","l","e","o","n","t","o","l","o","g","y"," ","#","f","o","s","s","i","l","s"," ","#","d","i","n","o","s","a","u","r","s"," ","#","e","v","e","n","t","s">> >>)

-----------------------------------------------------------------------------
(* main, as the claims word it *)

\* main has ended
Ended == pc \in {"done", "exit"}

\* the events of the batch whose graphic did not fail, in input order
Rendered == SelectSeq([i \in 1..Len(events_data) |-> i], LAMBDA i : i \notin failed)

\* the graphic files main is to have written: one per rendered event, named
\* by the event's place in the batch
GraphicFiles ==
    [k \in 1..Len(Rendered) |->
        [name |-> svg_filename(Rendered[k] - 1),
         svg |-> generate_svg(events_data[Rendered[k]]),
         text |-> <<>>]]

\* the error of event i is in the log
ErrorLogged(i) ==
    \E k \in 1..Len(log) : log[k].level = "error" /\ log[k].n = i
                           /\ log[k].what = "Failed to generate SVG for event"

\* C9: when main has ended on a batch in which the graphic of some event
\* failed, the batch was not aborted: every event was gone through, each
\* failing event is logged and has no file, every other event has its
\* graphic, in input order, and the digest was generated after them with one
\* line for every event of the batch, failing ones included.
C9_FailureIsolation ==
    (Ended /\ failed # {}) =>
        /\ index = Len(events_data)
        /\ \A i \in failed : ErrorLogged(i)
        /\ content_txt.status = "returned"
        /\ Len(content_txt.lines) = Len(events_data)
        /\ exit_code = 0
        /\ ~dry_run =>
               files = GraphicFiles \o
                   <<[name |-> <<"c","o","n","t","e","n","t",".","t","x","t">>, svg |-> NoSvg, text |-> content_txt.text]>>

\* C9, for the batches with no null title: checked to hold
C9_FailureIsolationTitleNotNull ==
    (Ended /\ failed # {} /\ \A i \in 1..Len(events_data) : events_data[i].title.tag # "None") =>
        /\ index = Len(events_data)
        /\ \A i \in failed : ErrorLogged(i)
        /\ content_txt.status = "returned"
        /\ Len(content_txt.lines) = Len(events_data)
        /\ exit_code = 0
        /\ ~dry_run =>
               files = GraphicFiles \o
                   <<[name |-> <<"c","o","n","t","e","n","t",".","t","x","t">>, svg |-> NoSvg, text |-> content_txt.text]>>

\* the fetch result is no list, or one of its elements is no dictionary
Malformed ==
    \/ response.kind = "dict"
    \/ /\ response.kind = "list"
       /\ \E i \in 1..Len(response.items) : ~response.items[i].isdict

\* the fetch result is a list of dictionaries
WellFormed ==
    /\ response.kind = "list"
    /\ \A i \in 1..Len(response.items) : response.items[i].isdict

\* nothing was rendered: no graphic built, no file written, no digest
NothingProduced ==
    /\ index = 0
    /\ svg_element = NoSvg
    /\ files = <<>>
    /\ content_txt = NoContent
    /\ events_data = <<>>

\* C10: a fetch result that is no list, or has an element that is no
\* dictionary, is refused by validate_api_response and the next step of
\* main is the exit with status 1: no graphic is built and no digest made,
\* not even for the well-formed records.  A list of dictionaries goes on
\* through main as the same records in the same order.
C10_MalformedBatchIsFatal ==
    /\ [](Malformed => /\ pc \in {"validate", "exit"}
                       /\ pc = "exit" => exit_code = 1
                       /\ NothingProduced
                       /\ ~validate_api_response(response).ok)
    /\ []((WellFormed /\ pc # "validate") => events_data = response.items)
    /\ [][(Malformed /\ pc = "validate") => (pc' = "exit" /\ exit_code' = 1)]_vars

\* a batch of a well-formed record and a string: main has ended with
\* status 1 and nothing but the output directory exists
C10_Witness ==
    /\ pc = "exit"
    /\ exit_code = 1
    /\ response.kind = "list"
    /\ Len(response.items) = 2
    /\ response.items[1].isdict
    /\ response.items[1].title = Str(<<"T","a","l","k">>)
    /\ ~response.items[2].isdict
    /\ ~dry_run
    /\ dir_created
    /\ files = <<>>

-----------------------------------------------------------------------------
(* The missing logo file *)

\* the warning of the missing logo file is in the log
LogoWarned ==
    \E k \in 1..Len(log) : log[k].level = "warning" /\ log[k].what = "logo file not found"

\* the image reference at (40, 40), 120 by 120, in tenths of a unit
IsLogoImage(e) ==
    /\ e.type = "Image"
    /\ e.href # ""
    /\ e.x = 400 /\ e.y = 400
    /\ e.width = 1200 /\ e.height = 1200

-----------------------------------------------------------------------------
(* The dry run *)

\* C12: in a dry run nothing is created at any point of main: the output
\* directory is not made and no file, graphic or content.txt, is written,
\* whatever was fetched and whether or not the graphic of an event failed;
\* and no step of a dry run changes that.
C12_DryRunCreatesNothing ==
    /\ [](dry_run => (~dir_created /\ files = <<>>))
    /\ [][dry_run => (dry_run' /\ ~dir_created' /\ files' = <<>>)]_vars

\* a dry run over two events, the first one's graphic failing, the second
\* one rendered, ended with the digest made and nothing created
C12_Witness ==
    /\ dry_run
    /\ pc = "done"
    /\ Len(events_data) = 2
    /\ failed = {1}
    /\ svg_element = generate_svg(events_data[2])
    /\ content_txt.status = "returned"
    /\ ~dir_created
    /\ files = <<>>

-----------------------------------------------------------------------------
(* The text of the content blocks *)

\* C13: every content block of a returned document has a text that is not
\* empty; the date block of a record whose date is present has one after
\* the time is stripped.
C13_BlocksHaveText ==
    pc = "returned" =>
        /\ \A i \in 4..Len(svg_element.elements) : svg_element.elements[i].text # <<>>
        /\ Present(event_data.date) =>
               /\ DateBlockIndex(event_data) \in 4..Len(svg_element.elements)
               /\ svg_element.elements[DateBlockIndex(event_data)].text # <<>>

\* C13, for every block but the date's: checked to hold
C13_OtherBlocksHaveText ==
    pc = "returned" =>
        \A i \in 4..Len(svg_element.elements) :
            (Present(event_data.date) => i # DateBlockIndex(event_data))
                => svg_element.elements[i].text # <<>>

-----------------------------------------------------------------------------
(* The digest at the end of main *)

\* the digest was produced: generate_content_txt returned its text and,
\* outside a dry run, content.txt is the last file written and holds it
DigestProduced ==
    /\ content_txt.status = "returned"
    /\ ~dry_run =>
           /\ files # <<>>
           /\ files[Len(files)] =
                  [name |-> <<"c","o","n","t","e","n","t",".","t","x","t">>, svg |-> NoSvg, text |-> content_txt.text]

\* the footer lines alone, joined by newlines
FooterOnly ==
    JoinLines(<< <<>>,
                 <<"F","o","r"," ","m","o","r","e"," ","i","n","f","o","r","m","a","t","i","o","n",":"," ","s","e","e"," ","h","t","t","p","s",":","/","/","a","l","b","e","r","t","a","p","a","l","e","o",".","o","r","g","/","e","v","e","n","t","s","/","c","a","l","e","n","d","a","r">>,
                 <<>>,
                 <<"#","p","a","l","a","e","o","n","t","o","l","o","g","y"," ","#","p","a","l","e","o","n","t","o","l","o","g","y"," ","#","f","o","s","s","i","l","s"," ","#","d","i","n","o","s","a","u","r","s"," ","#","e","v","e","n","t","s">> >>)

\* C14: when main has ended after a fetch and a validation that succeeded,
\* the digest was produced (content.txt written unless in a dry run); for a
\* validated batch of zero events the digest is the footer lines alone.
C14_DigestAlwaysProduced ==
    (Ended /\ WellFormed) =>
        /\ DigestProduced
        /\ exit_code = 0
        /\ events_data = <<>> => content_txt.text = FooterOnly

\* C14, for the batches that are not empty and hold no null title: checked
\* to hold
C14_DigestOfNonEmptyBatch ==
    (/\ Ended
     /\ WellFormed
     /\ response.items # <<>>
     /\ \A i \in 1..Len(response.items) : response.items[i].title.tag # "None") =>
        /\ DigestProduced
        /\ exit_code = 0

====
